---- MODULE Spec2Model ----
(***************************************************************************)
(* Model of the Mistral chat application.                                  *)
(*                                                                         *)
(* Proxy Forwarder: the POST handler of app/api/chat/route.ts, one request *)
(* from its entry to its response.  The upstream completion API is the     *)
(* environment: every axios.post either throws or resolves with a status   *)
(* and (possibly) a Node stream, and an error body stream either ends with *)
(* some text or fails.                                                     *)
(*                                                                         *)
(* Stream pass-through: toWebStream of route.ts, from the Node stream of    *)
(* the successful attempt to the web stream of the response.                *)
(*                                                                         *)
(* Texts are sequences of tokens; a message content is a sequence of       *)
(* characters.  The TLS set-up of route.ts (lines 60-81: caPathUsed,       *)
(* allowInsecure) and the temperature field take no part in any decision   *)
(* of the handler and are left out of the payload and of the meta texts.   *)
(***************************************************************************)
EXTENDS Integers, Sequences, FiniteSets, TLC

\* ------------------------------------------------------------------------
\* Bounds of the model
\* ------------------------------------------------------------------------

\* longest conversation of an inbound request
MaxMsgs == 2

\* ------------------------------------------------------------------------
\* Values
\* ------------------------------------------------------------------------

\* a JSON field that is absent (undefined / null)
Undefined == [def |-> FALSE, val |-> <<>>]

Defined(v) == [def |-> TRUE, val |-> v]

\* the whitespace character of the contents
Whitespace == {" "}

RECURSIVE SeqsUpTo(_, _)
SeqsUpTo(S, n) ==
  IF n = 0 THEN {<<>>}
  ELSE LET shorter == SeqsUpTo(S, n - 1)
       IN  shorter \cup {Append(s, c) : s \in shorter, c \in S}

\* contents of an assistant message: none, empty, whitespace only, text
\* within whitespace
AssistantContents ==
  {Undefined, Defined(<<>>), Defined(<<" ">>), Defined(<<" ", "a", " ">>)}

\* contents of a user message
UserContents == {Defined(<<>>), Defined(<<"a">>)}

ToolCalls == {Undefined, Defined(<<>>), Defined(<<"call_1">>)}

\* type Msg of the page, plus the tool_calls field the handler looks at;
\* only assistant messages carry tool calls
Msg ==
  [role : {"user"}, content : UserContents, tool_calls : {Undefined}]
    \cup [role : {"assistant"}, content : AssistantContents,
          tool_calls : ToolCalls]

\* the model field of the request body: absent, or one of the identifiers the
\* page's selector offers
DEFAULT_MODEL == "mistral-large-latest"

SelectorModels == {"mistral-small-latest", "codestral-latest"}

ModelField == {Undefined} \cup {Defined(m) : m \in SelectorModels}

\* the messages field: a list of messages, or a value that is not an array
NotAnArray == [def |-> TRUE, val |-> <<>>, array |-> FALSE]

MessagesField ==
  {[def |-> TRUE, val |-> s, array |-> TRUE] : s \in SeqsUpTo(Msg, MaxMsgs)}
    \cup {NotAnArray}

\* what req.json() yields: a parsed body, or a parse failure
Unparsable == [ok |-> FALSE, messages |-> NotAnArray, model |-> Undefined]

RequestBodies ==
  {Unparsable} \cup [ok : {TRUE}, messages : MessagesField, model : ModelField]

\* upstream statuses and error-body texts
Statuses == {200, 204, 304, 400, 429}

ErrorBodies ==
  { <<>>,
    <<"bad request">>,
    <<"error:", "Service_Tier_Capacity_Exceeded">> }

\* the outcome of an axios.post: none yet, a rejection, or a result
NoRes == [threw |-> FALSE, status |-> 0, data |-> FALSE]

Threw == [threw |-> TRUE, status |-> 0, data |-> FALSE]

Results == [threw : {FALSE}, status : Statuses, data : BOOLEAN]

NoPayload == [sent |-> FALSE, model |-> "", messages |-> <<>>]

\* the first argument of axios.post
UPSTREAM_URL == "https://api.mistral.ai/v1/chat/completions"

\* values of MISTRAL_API_BASE_URL: unset, or the gateway of the README
BaseUrls == {Undefined, Defined("http://127.0.0.1:8787")}

\* the Node stream res.data of the successful attempt: the chunks emitted so
\* far, whether the last one ended inside a two-byte character, and whether
\* the stream is flowing, has ended or has failed
NewUpstream == [state |-> "flowing", emitted |-> <<>>, midChar |-> FALSE]

\* the web stream of the response: its state and the chunks enqueued
NewWeb == [state |-> "readable", chunks |-> <<>>]

NoHeader == "<no header>"

NoResponse ==
  [sent |-> FALSE, status |-> 0, stream |-> FALSE, text |-> <<>>,
   xModelUsed |-> NoHeader, contentType |-> NoHeader]

\* ------------------------------------------------------------------------
\* Pure functions of the handler
\* ------------------------------------------------------------------------

RECURSIVE TrimStart(_)
TrimStart(s) ==
  IF s = <<>> THEN s
  ELSE IF Head(s) \in Whitespace THEN TrimStart(Tail(s)) ELSE s

RECURSIVE TrimEnd(_)
TrimEnd(s) ==
  IF s = <<>> THEN s
  ELSE IF s[Len(s)] \in Whitespace THEN TrimEnd(SubSeq(s, 1, Len(s) - 1)) ELSE s

\* String.prototype.trim
Trim(s) == TrimEnd(TrimStart(s))

\* !m?.content
NoContent(m) == ~m.content.def \/ m.content.val = <<>>

\* variant: the content is tested without trimming
IsEmptyPlaceholderNoTrim(m) ==
  /\ m.role = "assistant"
  /\ NoContent(m)
  /\ (~m.tool_calls.def \/ Len(m.tool_calls.val) = 0)

\* the predicate negated inside incoming.filter
IsEmptyPlaceholder(m) ==
  /\ m.role = "assistant"
  /\ (NoContent(m) \/ Trim(m.content.val) = <<>>)
  /\ (~m.tool_calls.def \/ Len(m.tool_calls.val) = 0)

\* const messages = Array.isArray(incoming) ? incoming.filter(...) : []
FilterMessages(field) ==
  IF field.array
  THEN SelectSeq(field.val, LAMBDA m : ~IsEmptyPlaceholder(m))
  ELSE <<>>

\* payload?.model ?? 'mistral-large-latest'
PreferModel(field) == IF field.def THEN field.val ELSE DEFAULT_MODEL

\* variant: the two fallbacks in the other order
ModelCandidatesSwapped(prefer) ==
  <<prefer, "mistral-small-latest", "mistral-medium-latest">>

ModelCandidates(prefer) ==
  <<prefer, "mistral-medium-latest", "mistral-small-latest">>

\* lower-casing of a token, as the i flag of the pattern does
Lower(tok) ==
  IF tok = "Service_Tier_Capacity_Exceeded"
  THEN "service_tier_capacity_exceeded"
  ELSE tok

\* /service_tier_capacity_exceeded/i.test(errText)
MatchesCapacityPattern(text) ==
  \E i \in 1..Len(text) : Lower(text[i]) = "service_tier_capacity_exceeded"

\* variant: every failed attempt counts as a capacity error
Is429Any(status, text) == status = status /\ text = text

Is429(status, text) == status = 429 \/ MatchesCapacityPattern(text)

\* res.status >= 200 && res.status < 300 && res.data
IsSuccess(r) == r.status >= 200 /\ r.status < 300 /\ r.data

\* statuses for which the Response constructor refuses a body
NullBodyStatuses == {101, 103, 204, 205, 304}

\* new Response(text, { status }) throws on a status outside 200..599 and on
\* a null-body status given a body
ResponseThrows(status) ==
  status < 200 \/ status > 599 \/ status \in NullBodyStatuses

TextResponse(status, text) ==
  [sent |-> TRUE, status |-> status, stream |-> FALSE, text |-> text,
   xModelUsed |-> NoHeader, contentType |-> "text/plain;charset=UTF-8"]

MissingKeyResponse == TextResponse(500, <<"missing MISTRAL_API_KEY">>)

BadJsonResponse == TextResponse(400, <<"Bad request JSON:", "parse error">>)

\* the catch block of the handler
AxiosFailedResponse(message) == TextResponse(502, <<"Axios failed:", message>>)

\* variant: the header names the default model, not the one that answered
StreamResponsePreferred(m) ==
  [sent |-> TRUE, status |-> 200, stream |-> TRUE, text |-> <<>>,
   xModelUsed |-> IF m = m THEN DEFAULT_MODEL ELSE m,
   contentType |-> "text/event-stream; charset=utf-8"]

\* new Response(toWebStream(res.data), { headers: { 'X-Model-Used': m } })
StreamResponse(m) ==
  [sent |-> TRUE, status |-> 200, stream |-> TRUE, text |-> <<>>,
   xModelUsed |-> m, contentType |-> "text/event-stream; charset=utf-8"]

\* `Upstream ${res.status}: ${errText}\n${meta}`
UpstreamErrorText(status, text, m) ==
  <<"Upstream", ToString(status)>> \o text \o <<"\n", ToString(status), m>>

\* variant: the status option is left out, so the response is a 200
UpstreamErrorResponseNoStatus(status, text, m) ==
  TextResponse(200, UpstreamErrorText(status, text, m))

\* the response of the non-capacity branch; a throwing constructor lands in
\* the catch block
UpstreamErrorResponse(status, text, m) ==
  IF ResponseThrows(status)
  THEN AxiosFailedResponse("Invalid response status code")
  ELSE TextResponse(status, UpstreamErrorText(status, text, m))

\* `Capacity exceeded for all candidates.\n${meta}`, meta listing tried
ExhaustedResponse(cands) ==
  TextResponse(429, <<"Capacity exceeded for all candidates.", "\n">> \o cands)

\* ------------------------------------------------------------------------
\* State
\* ------------------------------------------------------------------------

VARIABLES
  hasKey,           \* process.env.MISTRAL_API_KEY is set
  reqBody,          \* the inbound request body
  pc,               \* position of the handler
  messages,         \* the filtered messages
  modelCandidates,  \* the ordered candidate list
  ci,               \* index of the candidate m of the outer loop
  attempt,          \* the inner loop's counter
  delay,            \* duration of the sleep before the attempt to come
  res,              \* the outcome of the latest axios.post
  errText,          \* the error body read from res.data
  payload,          \* body of the latest upstream request
  tried,            \* models submitted upstream so far, in order
  nCap,             \* attempts so far that met a capacity error
  response,         \* the handler's response
  baseUrl,          \* process.env.MISTRAL_API_BASE_URL
  url,              \* the URL of the latest upstream request
  hasToWeb,         \* Readable.toWeb exists in this Node
  upstream,         \* the Node stream res.data of the successful attempt
  decoder,          \* bytes held back by the stream's utf8 decoder
  web,              \* the web stream handed to the Response
  pmessages,        \* the page's messages state
  input,            \* the page's input state
  pending,          \* the page's pending state
  abortRef,         \* abortRef.current: 0 (null) or the send that owns it
  readerRef,        \* readerRef.current: 0 (null) or the send that owns it
  nSends,           \* calls of send that went past its first line
  sends,            \* per call of send: its position and its buffer
  reqs,             \* per call of send: its request to /api/chat
  bodies,           \* per call of send: the body stream of its response
  unhandled         \* calls of send whose promise was rejected

\* the state of the page
pageVars ==
  <<pmessages, input, pending, abortRef, readerRef, nSends, sends, reqs,
    bodies, unhandled>>

\* the state of the pass-through
streamVars == <<hasToWeb, upstream, decoder, web>>

\* the state outside the Forwarder's request loop
others == <<baseUrl, streamVars, pageVars>>

\* the state of the Forwarder's request loop
handlerVars ==
  <<hasKey, reqBody, pc, messages, modelCandidates, ci, attempt, delay, res,
    errText, payload, tried, nCap, response, url>>

vars == <<handlerVars, others>>

\* the page has not sent anything and its input is empty
PageIdle ==
  /\ pmessages = <<>>
  /\ input = <<>>
  /\ pending = FALSE
  /\ abortRef = 0
  /\ readerRef = 0
  /\ nSends = 0
  /\ sends = <<>>
  /\ reqs = <<>>
  /\ bodies = <<>>
  /\ unhandled = {}

\* the request has not been handled yet
HandlerFresh ==
  /\ pc = "start"
  /\ messages = <<>>
  /\ modelCandidates = <<>>
  /\ ci = 1
  /\ attempt = 0
  /\ delay = 0
  /\ res = NoRes
  /\ errText = <<>>
  /\ payload = NoPayload
  /\ tried = <<>>
  /\ nCap = 0
  /\ response = NoResponse
  /\ url = ""
  /\ upstream = NewUpstream
  /\ decoder = <<>>
  /\ web = NewWeb

Fresh == HandlerFresh /\ PageIdle

Init ==
  /\ hasKey \in BOOLEAN
  /\ reqBody \in RequestBodies
  /\ baseUrl = Undefined
  /\ hasToWeb = TRUE
  /\ Fresh


\* ------------------------------------------------------------------------
\* The handler, step by step
\* ------------------------------------------------------------------------

\* for (let attempt = 0; attempt < 2; attempt++)
AttemptsPerModel == 2

\* variant: the exponent is the attempt itself
BackoffBaseNext(a) == 200 * 2 ^ a

\* const base = 200 * Math.pow(2, attempt - 1)
BackoffBase(a) == 200 * 2 ^ (a - 1)

\* Math.floor(Math.random() * base): the least and the greatest value
Jitters(base) == {0, base - 1}

Respond(r) ==
  /\ response' = r
  /\ pc' = "done"

\* variant: the body is parsed before the credential is checked
StartParseFirst ==
  /\ pc = "start"
  /\ IF ~reqBody.ok
     THEN /\ Respond(BadJsonResponse)
          /\ UNCHANGED <<messages, modelCandidates>>
     ELSE IF ~hasKey
     THEN /\ Respond(MissingKeyResponse)
          /\ UNCHANGED <<messages, modelCandidates>>
     ELSE /\ messages' = FilterMessages(reqBody.messages)
          /\ modelCandidates' = ModelCandidates(PreferModel(reqBody.model))
          /\ pc' = "post"
          /\ UNCHANGED response
  /\ UNCHANGED <<hasKey, reqBody, ci, attempt, delay, res, errText, payload,
                 tried, nCap, url, others>>

\* entry of POST: the credential check, req.json(), the filter, the
\* candidate list
Start ==
  /\ pc = "start"
  /\ IF ~hasKey
     THEN /\ Respond(MissingKeyResponse)
          /\ UNCHANGED <<messages, modelCandidates>>
     ELSE IF ~reqBody.ok
     THEN /\ Respond(BadJsonResponse)
          /\ UNCHANGED <<messages, modelCandidates>>
     ELSE /\ messages' = FilterMessages(reqBody.messages)
          /\ modelCandidates' = ModelCandidates(PreferModel(reqBody.model))
          /\ pc' = "post"
          /\ UNCHANGED response
  /\ UNCHANGED <<hasKey, reqBody, ci, attempt, delay, res, errText, payload,
                 tried, nCap, url, others>>

\* if (attempt > 0) await sleep(base + jitter)
Sleep ==
  /\ pc = "sleep"
  /\ attempt > 0
  /\ \E jitter \in Jitters(BackoffBase(attempt)) :
       delay' = BackoffBase(attempt) + jitter
  /\ pc' = "post"
  /\ UNCHANGED <<hasKey, reqBody, messages, modelCandidates, ci, attempt, res,
                 errText, payload, tried, nCap, response, url, others>>

\* the request body handed to axios.post for candidate m; res and errText are
\* constants of the loop body, fresh in every iteration
Submit ==
  /\ payload' = [sent |-> TRUE, model |-> modelCandidates[ci],
                 messages |-> messages]
  /\ tried' = Append(tried, modelCandidates[ci])
  /\ delay' = 0
  /\ errText' = <<>>
  /\ url' = UPSTREAM_URL

\* variant: a rejection is retried like a capacity error
PostThrowsRetried ==
  /\ pc = "post"
  /\ Submit
  /\ res' = Threw
  /\ IF attempt + 1 < AttemptsPerModel
     THEN /\ attempt' = attempt + 1
          /\ pc' = "sleep"
          /\ UNCHANGED response
     ELSE /\ Respond(AxiosFailedResponse("network error"))
          /\ UNCHANGED attempt
  /\ UNCHANGED <<hasKey, reqBody, messages, modelCandidates, ci, nCap,
                 others>>

\* axios.post rejects: the catch block answers
PostThrows ==
  /\ pc = "post"
  /\ Submit
  /\ res' = Threw
  /\ Respond(AxiosFailedResponse("network error"))
  /\ UNCHANGED <<hasKey, reqBody, messages, modelCandidates, ci, attempt,
                 nCap, others>>

\* axios.post resolves with a status (validateStatus accepts all) and a stream
\* or none; success passes the stream through
PostResolves ==
  /\ pc = "post"
  /\ Submit
  /\ \E r \in Results :
       /\ res' = r
       /\ IF IsSuccess(r)
          THEN Respond(StreamResponse(modelCandidates[ci]))
          ELSE /\ pc' = "readErr"
               /\ UNCHANGED response
  /\ UNCHANGED <<hasKey, reqBody, messages, modelCandidates, ci, attempt,
                 nCap, others>>

\* variant: the loop stops one candidate short
ContinueOneShort ==
  IF attempt + 1 < AttemptsPerModel
  THEN /\ attempt' = attempt + 1
       /\ pc' = "sleep"
       /\ UNCHANGED <<ci, response>>
  ELSE IF ci < Len(modelCandidates) - 1
  THEN /\ ci' = ci + 1
       /\ attempt' = 0
       /\ pc' = "post"
       /\ UNCHANGED response
  ELSE /\ Respond(ExhaustedResponse(modelCandidates))
       /\ UNCHANGED <<ci, attempt>>

\* the end of the inner loop's body on a capacity error: retry the same
\* model after a sleep, move to the next candidate, or give up
Continue ==
  IF attempt + 1 < AttemptsPerModel
  THEN /\ attempt' = attempt + 1
       /\ pc' = "sleep"
       /\ UNCHANGED <<ci, response>>
  ELSE IF ci < Len(modelCandidates)
  THEN /\ ci' = ci + 1
       /\ attempt' = 0
       /\ pc' = "post"
       /\ UNCHANGED response
  ELSE /\ Respond(ExhaustedResponse(modelCandidates))
       /\ UNCHANGED <<ci, attempt>>

\* the error body has been read to its end ('' without res.data): classify
ReadErrorBody ==
  /\ pc = "readErr"
  /\ \E text \in (IF res.data THEN ErrorBodies ELSE {<<>>}) :
       /\ errText' = text
       /\ nCap' = nCap + (IF res.status = 429 \/ MatchesCapacityPattern(text)
                          THEN 1 ELSE 0)
       /\ IF ~Is429(res.status, text)
          THEN /\ Respond(UpstreamErrorResponse(res.status, text,
                                                modelCandidates[ci]))
               /\ UNCHANGED <<ci, attempt>>
          ELSE Continue
  /\ UNCHANGED <<hasKey, reqBody, messages, modelCandidates, delay, res,
                 payload, tried, url, others>>

\* the error body stream fails: 'end' never comes and the promise of errText
\* never settles
ErrorBodyFails ==
  /\ pc = "readErr"
  /\ res.data
  /\ pc' = "hung"
  /\ UNCHANGED <<hasKey, reqBody, messages, modelCandidates, ci, attempt,
                 delay, res, errText, payload, tried, nCap, response, url,
                 others>>

Next ==
  \/ Start
  \/ Sleep
  \/ PostThrows
  \/ PostResolves
  \/ ReadErrorBody
  \/ ErrorBodyFails

Spec == Init /\ [][Next]_vars

\* ------------------------------------------------------------------------
\* The pass-through of the successful attempt's stream (toWebStream)
\* ------------------------------------------------------------------------

\* most chunks of an upstream stream
MaxChunks == 3

\* most bytes of a chunk
MaxChunkLen == 2

\* bytes of the upstream stream: a one-byte character, and the lead and the
\* trail byte of a two-byte character
Bytes == {"a", "H", "T"}

\* the chunk continues a well-formed utf8 stream that is inside a two-byte
\* character (mid) or between characters
RECURSIVE WellFormed(_, _)
WellFormed(mid, chunk) ==
  IF chunk = <<>> THEN TRUE
  ELSE IF mid THEN Head(chunk) = "T" /\ WellFormed(FALSE, Tail(chunk))
  ELSE IF Head(chunk) = "H" THEN WellFormed(TRUE, Tail(chunk))
  ELSE Head(chunk) = "a" /\ WellFormed(FALSE, Tail(chunk))

\* the chunks the upstream may emit next
Chunks(mid) ==
  {c \in SeqsUpTo(Bytes, MaxChunkLen) : c # <<>> /\ WellFormed(mid, c)}

\* the utf8 decoder that setEncoding installs: a chunk is decoded together
\* with the bytes held back, and a lead byte at its end is held back
DecoderWrite(held, chunk) ==
  LET bytes == held \o chunk
      n == Len(bytes)
  IN  IF n > 0 /\ bytes[n] = "H"
      THEN [text |-> SubSeq(bytes, 1, n - 1), held |-> <<"H">>]
      ELSE [text |-> bytes, held |-> <<>>]

\* encoder.encode(chunk): the bytes of the text
Encode(text) == text

\* controller.enqueue(buf)
Enqueue(w, buf) == [w EXCEPT !.chunks = Append(@, buf)]

\* Readable.toWeb: every chunk of the Node stream is enqueued as it is
ToWebData(w, chunk) == Enqueue(w, chunk)

\* the fallback's 'data' listener: the Node stream in utf8 mode emits the
\* decoded text of a chunk, unless it is empty
FallbackData(w, held, chunk) ==
  LET d == DecoderWrite(held, chunk)
  IN  IF d.text = <<>> THEN w ELSE Enqueue(w, Encode(d.text))

Streaming ==
  /\ response.sent
  /\ response.stream
  /\ upstream.state = "flowing"

\* the upstream stream emits a chunk
UpstreamData ==
  /\ Streaming
  /\ Len(upstream.emitted) < MaxChunks
  /\ \E chunk \in Chunks(upstream.midChar) :
       /\ upstream' = [upstream EXCEPT !.emitted = Append(@, chunk),
                                        !.midChar = chunk[Len(chunk)] = "H"]
       /\ IF hasToWeb
          THEN /\ web' = ToWebData(web, chunk)
               /\ UNCHANGED decoder
          ELSE /\ web' = FallbackData(web, decoder, chunk)
               /\ decoder' = DecoderWrite(decoder, chunk).held
  /\ UNCHANGED <<handlerVars, baseUrl, hasToWeb, pageVars>>

\* the upstream stream ends, between two characters: controller.close()
UpstreamEnd ==
  /\ Streaming
  /\ ~upstream.midChar
  /\ upstream' = [upstream EXCEPT !.state = "ended"]
  /\ web' = [web EXCEPT !.state = "closed"]
  /\ UNCHANGED <<handlerVars, baseUrl, hasToWeb, decoder, pageVars>>

\* the upstream stream fails: controller.error(err)
UpstreamError ==
  /\ Streaming
  /\ upstream' = [upstream EXCEPT !.state = "errored"]
  /\ web' = [web EXCEPT !.state = "errored"]
  /\ UNCHANGED <<handlerVars, baseUrl, hasToWeb, decoder, pageVars>>

\* the inbound request of the route test: a user message and the page's
\* empty placeholder, no model
StreamRequests ==
  {[ok |-> TRUE,
    messages |->
      [def |-> TRUE, array |-> TRUE,
       val |-> << [role |-> "user", content |-> Defined(<<"a">>),
                   tool_calls |-> Undefined],
                  [role |-> "assistant", content |-> Defined(<<>>),
                   tool_calls |-> Undefined] >>],
    model |-> Undefined]}

\* one request in every environment: with or without the base-URL override,
\* on a Node with or without Readable.toWeb
StreamInit ==
  /\ hasKey = TRUE
  /\ reqBody \in StreamRequests
  /\ baseUrl \in BaseUrls
  /\ hasToWeb \in BOOLEAN
  /\ Fresh

StreamNext ==
  \/ Start
  \/ Sleep
  \/ PostThrows
  \/ PostResolves
  \/ ReadErrorBody
  \/ ErrorBodyFails
  \/ UpstreamData
  \/ UpstreamEnd
  \/ UpstreamError

StreamSpec == StreamInit /\ [][StreamNext]_vars


\* ------------------------------------------------------------------------
\* Properties of the Proxy Forwarder
\* ------------------------------------------------------------------------

\* a capacity error: status 429, or a body matching the capacity pattern
CapacityError(status, text) ==
  \/ status = 429
  \/ \E i \in 1..Len(text) :
       text[i] \in {"service_tier_capacity_exceeded",
                    "Service_Tier_Capacity_Exceeded"}

\* an assistant message without text (no content, or whitespace only) and
\* without tool calls
EmptyAssistant(m) ==
  /\ m.role = "assistant"
  /\ \/ ~m.content.def
     \/ \A i \in 1..Len(m.content.val) : m.content.val[i] \in Whitespace
  /\ (m.tool_calls.def => m.tool_calls.val = <<>>)

\* the latest attempt resolved with a non-success status, its error body was
\* read, it was not a capacity error, and the handler has answered
NonCapacityError ==
  /\ response.sent
  /\ ~res.threw
  /\ res.status >= 300
  /\ ~CapacityError(res.status, errText)

\* C1: the messages of every upstream request (first attempt, retry or
\* fallback) hold no assistant message with empty or whitespace-only content
\* and no tool calls; the UI's trailing placeholder never goes upstream.
C1_NoEmptyAssistantUpstream ==
  payload.sent =>
    \A i \in 1..Len(payload.messages) : ~EmptyAssistant(payload.messages[i])

\* a fallback attempt has been made for a conversation that ends in a
\* whitespace-only assistant placeholder
C1_Witness ==
  /\ payload.sent
  /\ Len(tried) >= 3
  /\ reqBody.messages.array
  /\ Len(reqBody.messages.val) = MaxMsgs
  /\ reqBody.messages.val[MaxMsgs] =
       [role |-> "assistant", content |-> Defined(<<" ">>),
        tool_calls |-> Defined(<<>>)]

AttemptOrder(c) == <<c[1], c[1], c[2], c[2], c[3], c[3]>>

\* C3: the models submitted within one request form a prefix of (preferred,
\* preferred, first fallback, first fallback, second fallback, second
\* fallback), and an attempt is made after another one only if that one met a
\* capacity error (status 429 or a body matching the pattern).
C3_AttemptOrder ==
  [][ /\ Len(tried') <= 6
      /\ Len(tried') > 0
           => tried' = SubSeq(AttemptOrder(modelCandidates'), 1, Len(tried'))
      /\ (Len(tried') > Len(tried) /\ Len(tried) > 0)
           => /\ Len(tried') = Len(tried) + 1
              /\ ~res.threw
              /\ res.status # 0
              /\ CapacityError(res.status, errText) ]_vars

\* all six attempts were made and the last one succeeded
C3_Witness ==
  /\ Len(tried) = 6
  /\ nCap = 5
  /\ response.sent
  /\ response.stream

\* C4: on success X-Model-Used is the model of the attempt that succeeded,
\* the candidate at position floor(k/2) after k capacity errors; after two
\* capacity errors it is mistral-medium-latest.
C4_ModelUsedHeader ==
  (response.sent /\ response.stream) =>
    /\ response.status = 200
    /\ response.xModelUsed = payload.model
    /\ response.xModelUsed = tried[Len(tried)]
    /\ response.xModelUsed = modelCandidates[(nCap \div 2) + 1]
    /\ nCap = 2 => response.xModelUsed = "mistral-medium-latest"

\* success on the third attempt, after the preferred model failed twice
C4_Witness ==
  /\ response.sent
  /\ response.stream
  /\ nCap = 2
  /\ response.xModelUsed = "mistral-medium-latest"

\* C5 as stated: after capacity errors on the first three attempts, a success
\* on the next attempt carries X-Model-Used = mistral-small-latest.
C5_Original ==
  (response.sent /\ response.stream /\ nCap = 3) =>
    response.xModelUsed = "mistral-small-latest"

\* C5 amended: after capacity errors on the first three attempts, the next
\* attempt is the retry of the first fallback, and its success carries
\* X-Model-Used = mistral-medium-latest.
C5_FourthAttemptIsFirstFallback ==
  (response.sent /\ response.stream /\ nCap = 3) =>
    /\ Len(tried) = 4
    /\ tried[4] = "mistral-medium-latest"
    /\ response.xModelUsed = "mistral-medium-latest"

\* success on the fourth attempt after three capacity errors
C5_Witness ==
  /\ response.sent
  /\ response.stream
  /\ nCap = 3
  /\ Len(tried) = 4

\* the capacity-exhausted response: status 429 and the fixed first line
IsExhausted(r) ==
  /\ r.status = 429
  /\ ~r.stream
  /\ Len(r.text) >= 1
  /\ r.text[1] = "Capacity exceeded for all candidates."

\* C6: the capacity-exhausted response (status 429) is returned exactly when
\* all six attempts met a capacity error, and its body names every candidate;
\* no other response has status 429.
C6_ExhaustedIffAllSixFail ==
  response.sent =>
    /\ IsExhausted(response) <=> (nCap = 6 /\ Len(tried) = 6)
    /\ response.status = 429 <=> IsExhausted(response)
    /\ IsExhausted(response) =>
         \A c \in 1..Len(modelCandidates) :
           \E i \in 1..Len(response.text) :
             response.text[i] = modelCandidates[c]

\* six capacity errors, the last by its body only, ended in the 429
C6_Witness ==
  /\ response.sent
  /\ IsExhausted(response)
  /\ nCap = 6
  /\ res.status = 400

\* C7: within one request no model identifier is submitted more than twice.
C7_NoModelMoreThanTwice ==
  \A m \in {tried[i] : i \in 1..Len(tried)} :
    Cardinality({i \in 1..Len(tried) : tried[i] = m}) <= 2

\* C8: without a credential every request, parsable or not, gets the fixed
\* status-500 response at once and nothing is sent upstream.
C8_MissingKey ==
  (~hasKey /\ pc # "start") =>
    /\ pc = "done"
    /\ response.sent
    /\ response.status = 500
    /\ response.text = <<"missing MISTRAL_API_KEY">>
    /\ ~response.stream
    /\ tried = <<>>
    /\ ~payload.sent

\* an unparsable body was answered without a credential
C8_Witness ==
  /\ ~hasKey
  /\ ~reqBody.ok
  /\ response.sent

\* C9: when axios.post throws, on any candidate and attempt, the handler
\* answers 502 with the failure's detail in that step and makes no further
\* attempt: neither the retry nor the fallback.
C9_TransportFailure ==
  [][ /\ res'.threw
        => /\ pc' = "done"
           /\ response'.sent
           /\ response'.status = 502
           /\ ~response'.stream
           /\ Len(response'.text) = 2
           /\ response'.text[1] = "Axios failed:"
      /\ res.threw => tried' = tried /\ response' = response ]_vars

\* the first attempt of the first fallback threw
C9_Witness ==
  /\ res.threw
  /\ Len(tried) = 3
  /\ response.status = 502

\* C10: a 2xx status is returned only with the X-Model-Used header and the
\* forwarded stream; every other response has a non-2xx status.
C10_TwoXXOnlyForStream ==
  (response.sent /\ response.status >= 200 /\ response.status < 300) =>
    /\ response.stream
    /\ response.xModelUsed # NoHeader


\* ------------------------------------------------------------------------
\* Properties of the pass-through and of the upstream URL
\* ------------------------------------------------------------------------

\* C11: the body of the success response is the upstream stream's chunk
\* sequence, chunk for chunk, closed exactly when the upstream has ended, with
\* status 200 and an event-stream content type.
C11_ChunksPassThrough ==
  (response.sent /\ response.stream) =>
    /\ web.chunks = upstream.emitted
    /\ web.state = "closed" <=> upstream.state = "ended"
    /\ response.status = 200
    /\ response.contentType = "text/event-stream; charset=utf-8"

\* C12: every upstream request goes to <override>/v1/chat/completions when
\* MISTRAL_API_BASE_URL is set, and to https://api.mistral.ai/v1/chat/completions
\* when it is not.
C12_BaseUrlOverride ==
  payload.sent =>
    url = (IF baseUrl.def THEN baseUrl.val ELSE "https://api.mistral.ai")
            \o "/v1/chat/completions"


\* ------------------------------------------------------------------------
\* The page (Incremental Renderer): parsing of the event stream
\* ------------------------------------------------------------------------

\* most lines of an event stream
MaxLines == 3

\* most calls of send that go past its first line
MaxSends == 2

\* tokens of an event stream
MARKER == "data:"

NL == "\n"

DONE == "[DONE]"

\* {"choices":[{"delta":{"content":  and its closing  }}]}
JSON_OPEN == "{\"choices\":[{\"delta\":{\"content\":"

JSON_CLOSE == "}}]}"

\* JSON string literals and the text each stands for
LiteralText(lit) ==
  CASE lit = "\"Bonjour\"" -> <<"Bonjour">>
    [] lit = "\" !\"" -> <<" !">>
    [] lit = "\"\"" -> <<>>

Literals == {"\"Bonjour\"", "\" !\"", "\"\""}

\* JSON.parse(payload) followed by obj?.choices?.[0]?.delta?.content: the
\* parse fails, or yields the content, or yields an object without that path
JsonContent(data) ==
  IF /\ Len(data) = 3
     /\ data[1] = JSON_OPEN
     /\ data[2] \in Literals
     /\ data[3] = JSON_CLOSE
  THEN [ok |-> TRUE, content |-> Defined(LiteralText(data[2]))]
  ELSE IF data = <<"{}">>
  THEN [ok |-> TRUE, content |-> Undefined]
  ELSE [ok |-> FALSE, content |-> Undefined]

\* variant: the ?? '' is missing, so a missing path is rendered as text
LineDeltaNoDefault(line) ==
  IF line = <<>> \/ Head(line) # MARKER THEN <<>>
  ELSE LET data == Trim(Tail(line))
       IN  IF data = <<>> \/ data = <<DONE>> THEN <<>>
           ELSE LET j == JsonContent(data)
                IN  IF ~j.ok THEN <<>>
                    ELSE IF j.content.def THEN j.content.val
                    ELSE <<"undefined">>

\* the body of the inner loop for one trimmed line: the delta to append, or
\* the empty text when the line is skipped
LineDelta(line) ==
  IF line = <<>> \/ Head(line) # MARKER THEN <<>>
  ELSE LET data == Trim(Tail(line))
       IN  IF data = <<>> \/ data = <<DONE>> THEN <<>>
           ELSE LET j == JsonContent(data)
                IN  IF ~j.ok THEN <<>>
                    ELSE IF j.content.def THEN j.content.val
                    ELSE <<>>

\* buffer.indexOf('\n'), counted from 1; 0 when there is none
RECURSIVE IndexOfNL(_)
IndexOfNL(buf) ==
  IF buf = <<>> THEN 0
  ELSE IF Head(buf) = NL THEN 1
  ELSE LET r == IndexOfNL(Tail(buf)) IN IF r = 0 THEN 0 ELSE r + 1

\* variant: the role of the last message is not looked at
ApplyDeltaAnyRole(curr, delta) ==
  IF Len(curr) > 0
  THEN [curr EXCEPT ![Len(curr)] =
          [role |-> "assistant", content |-> @.content \o delta]]
  ELSE curr

\* variant: the delta replaces the content instead of being appended to it
ApplyDeltaReplace(curr, delta) ==
  IF Len(curr) > 0 /\ curr[Len(curr)].role = "assistant"
  THEN [curr EXCEPT ![Len(curr)] =
          [role |-> "assistant", content |-> delta]]
  ELSE curr

\* the updater handed to setMessages for a delta
ApplyDelta(curr, delta) ==
  IF Len(curr) > 0 /\ curr[Len(curr)].role = "assistant"
  THEN [curr EXCEPT ![Len(curr)] =
          [role |-> "assistant", content |-> @.content \o delta]]
  ELSE curr

\* variant: what is left of the buffer after its lines is thrown away
RECURSIVE DrainDropRest(_, _)
DrainDropRest(buf, curr) ==
  LET idx == IndexOfNL(buf)
  IN  IF idx = 0 THEN [buffer |-> <<>>, messages |-> curr]
      ELSE LET line == Trim(SubSeq(buf, 1, idx - 1))
               rest == SubSeq(buf, idx + 1, Len(buf))
               delta == LineDelta(line)
           IN  DrainDropRest(rest, IF delta = <<>> THEN curr
                                   ELSE ApplyDelta(curr, delta))

\* while ((idx = buffer.indexOf('\n')) !== -1) { ... }: every complete line
\* is taken off the buffer and its delta applied
RECURSIVE Drain(_, _)
Drain(buf, curr) ==
  LET idx == IndexOfNL(buf)
  IN  IF idx = 0 THEN [buffer |-> buf, messages |-> curr]
      ELSE LET line == Trim(SubSeq(buf, 1, idx - 1))
               rest == SubSeq(buf, idx + 1, Len(buf))
               delta == LineDelta(line)
           IN  Drain(rest, IF delta = <<>> THEN curr
                           ELSE ApplyDelta(curr, delta))

\* lines of an event stream, without their newline
DataLine(lit) == <<MARKER, " ", JSON_OPEN, lit, JSON_CLOSE>>

DoneLine == <<MARKER, " ", DONE>>

Lines ==
  {DataLine(lit) : lit \in Literals}
    \cup { DoneLine,
           <<>>,
           <<MARKER, " ">>,
           <<"event:", " ", "message">>,
           <<MARKER, " ", "{}">>,
           <<MARKER, " ", JSON_OPEN, "\"Bonjour\"">>,
           <<" ", MARKER, JSON_OPEN, "\" !\"", JSON_CLOSE, " ">> }

RECURSIVE Flatten(_)
Flatten(ss) == IF ss = <<>> THEN <<>> ELSE Head(ss) \o Flatten(Tail(ss))

\* the text of a stream of newline-terminated lines
Wire(lines) == Flatten([k \in 1..Len(lines) |-> Append(lines[k], NL)])

\* the event streams read in the parsing specification
ReadWires == {Wire(ls) : ls \in SeqsUpTo(Lines, MaxLines)}


\* ------------------------------------------------------------------------
\* The page: send, stop and reset
\* ------------------------------------------------------------------------

\* values of the input field: empty, blank, a text
Inputs == {<<>>, <<" ">>, <<"a">>}

\* the placeholder send puts behind the user's message
Placeholder == [role |-> "assistant", content |-> <<>>]

\* next.filter(m => !(m.role === "assistant" && !m.content?.trim()))
MessagesForApi(next) ==
  SelectSeq(next, LAMBDA m : ~(m.role = "assistant" /\ Trim(m.content) = <<>>))

\* a call of send: where it is suspended, its reassembly buffer, and the way
\* it left the request or the read loop
NewSend == [pc |-> "fetch", buffer |-> <<>>, exit |-> "none"]

\* a request to /api/chat: its body, whether its controller was aborted and
\* whether it is live (issued, neither completed nor aborted)
NewReq(msgs) == [messages |-> msgs, aborted |-> FALSE, live |-> TRUE]

\* the body stream of a response: the text it carries, how much of it has
\* been read, and the stream's state
NoBody == [state |-> "none", wire0 |-> <<>>, pos |-> 0]

\* the event streams of the page specification
PageWires == {Wire(<<DataLine("\"Bonjour\"")>>)}

\* errors of fetch, res.text() and reader.read()
AbortError == [name |-> "AbortError", message |-> "The operation was aborted."]

NetworkError == [name |-> "TypeError", message |-> "network error"]

BufferAborted == [name |-> "TypeError", message |-> "BodyStreamBuffer was aborted"]

\* failures of a read that the page did not ask for
ReadErrors == {NetworkError, BufferAborted}

\* /aborted|BodyStreamBuffer was aborted/i.test(message)
MentionsAborted(message) ==
  message \in {"The operation was aborted.", "BodyStreamBuffer was aborted"}

\* err?.name === 'AbortError' || /aborted|.../i.test(err?.message || '')
IsAbort(err) ==
  err.name = "AbortError" \/ MentionsAborted(err.message)

\* controller.abort(): a pending fetch or text() rejects, an open body fails
AbortReqs(rq, j) ==
  IF j = 0 THEN rq ELSE [rq EXCEPT ![j].aborted = TRUE, ![j].live = FALSE]

AbortBodies(bd, j) ==
  IF j = 0 \/ bd[j].state # "open" THEN bd
  ELSE [bd EXCEPT ![j].state = "aborted"]

\* reader.cancel(): an open body is closed and its request is over
CancelReqs(rq, bd, j) ==
  IF j = 0 \/ bd[j].state # "open" THEN rq ELSE [rq EXCEPT ![j].live = FALSE]

CancelBodies(bd, j) ==
  IF j = 0 \/ bd[j].state # "open" THEN bd
  ELSE [bd EXCEPT ![j].state = "closed"]

\* the warning sign and the space that open an error text
WARNING == "(!) "

\* copy[copy.length - 1] = m
ReplaceLast(curr, m) ==
  IF curr = <<>> THEN curr ELSE [curr EXCEPT ![Len(curr)] = m]

\* the updater of the non-success branch
ShowNotOk(curr) ==
  ReplaceLast(curr, [role |-> "assistant", content |-> <<WARNING, "errText">>])

\* variant: the error text replaces the content
ShowErrorReplace(curr, err) ==
  IF curr = <<>> THEN curr
  ELSE ReplaceLast(curr, [role |-> "assistant",
                          content |-> <<WARNING, err.message>>])

\* the updater of the catch block
ShowError(curr, err) ==
  IF curr = <<>> THEN curr
  ELSE LET last == curr[Len(curr)]
           msg == <<WARNING, err.message>>
       IN  ReplaceLast(curr,
             [role |-> "assistant",
              content |-> IF last.role = "assistant"
                          THEN last.content \o <<"\n\n">> \o msg
                          ELSE msg])

\* a call of send whose awaited promise is already settled: its continuation
\* is a microtask and runs before any click and any network event
Runnable(i) ==
  \/ sends[i].pc \in {"finally", "finally2"}
  \/ sends[i].pc = "read" /\ bodies[i].state \in {"closed", "aborted"}
  \/ sends[i].pc \in {"fetch", "text"} /\ reqs[i].aborted

\* variant: clicks and network events do not wait for the continuations
QuietUnordered == TRUE

\* no continuation is due: a click or a network event is handled only then
Quiet == \A i \in 1..nSends : ~Runnable(i)

NotPage == <<handlerVars, baseUrl, streamVars>>

\* the input field is edited
TypeInput ==
  /\ Quiet
  /\ \E v \in Inputs : v # input /\ input' = v
  /\ UNCHANGED <<pmessages, pending, abortRef, readerRef, nSends, sends, reqs,
                 bodies, unhandled, NotPage>>

\* variant: send has no guard and leaves the prior controller alone
SendAlways ==
  /\ Quiet
  /\ nSends < MaxSends
  /\ LET next == pmessages \o <<[role |-> "user", content |-> input],
                                Placeholder>>
     IN  /\ pmessages' = next
         /\ input' = <<>>
         /\ pending' = TRUE
         /\ reqs' = Append(reqs, NewReq(MessagesForApi(next)))
         /\ bodies' = Append(bodies, NoBody)
         /\ abortRef' = nSends + 1
         /\ nSends' = nSends + 1
         /\ sends' = Append(sends, NewSend)
         /\ UNCHANGED <<readerRef, unhandled>>
  /\ UNCHANGED NotPage

\* send(), up to its await of fetch
Send ==
  /\ Quiet
  /\ nSends < MaxSends
  /\ IF Trim(input) = <<>> \/ pending
     THEN UNCHANGED pageVars
     ELSE LET next == pmessages \o <<[role |-> "user", content |-> input],
                                     Placeholder>>
          IN  /\ pmessages' = next
              /\ input' = <<>>
              /\ pending' = TRUE
              /\ reqs' = Append(AbortReqs(reqs, abortRef),
                                NewReq(MessagesForApi(next)))
              /\ bodies' = Append(AbortBodies(bodies, abortRef), NoBody)
              /\ abortRef' = nSends + 1
              /\ nSends' = nSends + 1
              /\ sends' = Append(sends, NewSend)
              /\ UNCHANGED <<readerRef, unhandled>>
  /\ UNCHANGED NotPage

\* fetch resolves; a success response has its reader taken and the read loop
\* entered, any other response has its text awaited
FetchResolves(i) ==
  /\ Quiet
  /\ sends[i].pc = "fetch"
  /\ \E ok \in BOOLEAN :
       IF ok
       THEN /\ \E w \in PageWires :
                 bodies' = [bodies EXCEPT ![i] =
                   [state |-> "open", wire0 |-> w, pos |-> 0]]
            /\ readerRef' = i
            /\ sends' = [sends EXCEPT ![i].pc = "read"]
       ELSE /\ sends' = [sends EXCEPT ![i].pc = "text"]
            /\ UNCHANGED <<bodies, readerRef>>
  /\ UNCHANGED <<pmessages, input, pending, abortRef, nSends, reqs, unhandled,
                 NotPage>>

\* fetch rejects, by the abort of its controller or by a network failure:
\* the await is outside the try, so the promise of send is rejected
FetchRejects(i) ==
  /\ sends[i].pc = "fetch"
  /\ reqs[i].aborted \/ Quiet
  /\ sends' = [sends EXCEPT ![i].pc = "threw",
                            ![i].exit = IF reqs[i].aborted THEN "fetchAbort"
                                        ELSE "fetchFail"]
  /\ reqs' = [reqs EXCEPT ![i].live = FALSE]
  /\ unhandled' = unhandled \cup {i}
  /\ UNCHANGED <<pmessages, input, pending, abortRef, readerRef, nSends,
                 bodies, NotPage>>

\* res.text() resolves on the non-success branch
TextResolves(i) ==
  /\ Quiet
  /\ sends[i].pc = "text"
  /\ pending' = FALSE
  /\ pmessages' = ShowNotOk(pmessages)
  /\ sends' = [sends EXCEPT ![i].pc = "done", ![i].exit = "notOk"]
  /\ reqs' = [reqs EXCEPT ![i].live = FALSE]
  /\ UNCHANGED <<input, abortRef, readerRef, nSends, bodies, unhandled,
                 NotPage>>

\* res.text() rejects: again outside the try
TextRejects(i) ==
  /\ sends[i].pc = "text"
  /\ reqs[i].aborted \/ Quiet
  /\ sends' = [sends EXCEPT ![i].pc = "threw",
                            ![i].exit = IF reqs[i].aborted THEN "textAbort"
                                        ELSE "textFail"]
  /\ reqs' = [reqs EXCEPT ![i].live = FALSE]
  /\ unhandled' = unhandled \cup {i}
  /\ UNCHANGED <<pmessages, input, pending, abortRef, readerRef, nSends,
                 bodies, NotPage>>

\* reader.read() yields a chunk: it is decoded onto the buffer and the
\* buffer's complete lines are processed
ReadChunk(i) ==
  /\ Quiet
  /\ sends[i].pc = "read"
  /\ bodies[i].state = "open"
  /\ \E k \in 1..(Len(bodies[i].wire0) - bodies[i].pos) :
       LET chunk == SubSeq(bodies[i].wire0, bodies[i].pos + 1,
                           bodies[i].pos + k)
           d == Drain(sends[i].buffer \o chunk, pmessages)
       IN  /\ sends' = [sends EXCEPT ![i].buffer = d.buffer]
           /\ pmessages' = d.messages
           /\ bodies' = [bodies EXCEPT ![i].pos = @ + k]
  /\ UNCHANGED <<input, pending, abortRef, readerRef, nSends, reqs, unhandled,
                 NotPage>>

\* reader.read() yields done, because the stream has ended or because the
\* reader was cancelled: break
ReadDone(i) ==
  /\ sends[i].pc = "read"
  /\ \/ bodies[i].state = "closed"
     \/ /\ Quiet
        /\ bodies[i].state = "open"
        /\ bodies[i].pos = Len(bodies[i].wire0)
  /\ sends' = [sends EXCEPT ![i].pc = "finally",
                            ![i].exit = IF bodies[i].state = "closed"
                                        THEN "cancel" ELSE "end"]
  /\ bodies' = [bodies EXCEPT ![i].state = "closed"]
  /\ reqs' = [reqs EXCEPT ![i].live = FALSE]
  /\ UNCHANGED <<pmessages, input, pending, abortRef, readerRef, nSends,
                 unhandled, NotPage>>

\* reader.read() rejects, by the abort of the request or by a network
\* failure: the catch block
ReadFails(i) ==
  /\ sends[i].pc = "read"
  /\ \/ bodies[i].state = "aborted"
     \/ Quiet /\ bodies[i].state = "open"
  /\ \E err \in IF bodies[i].state = "aborted" THEN {AbortError}
                 ELSE ReadErrors :
         /\ pmessages' = IF IsAbort(err) THEN pmessages
                         ELSE ShowError(pmessages, err)
         /\ sends' = [sends EXCEPT ![i].pc = "finally",
                                   ![i].exit = IF IsAbort(err) THEN "abort"
                                               ELSE "error"]
  /\ bodies' = [bodies EXCEPT ![i].state = "failed"]
  /\ reqs' = [reqs EXCEPT ![i].live = FALSE]
  /\ UNCHANGED <<input, pending, abortRef, readerRef, nSends, unhandled,
                 NotPage>>

\* finally: await readerRef.current?.cancel(); the cancel of a stream that is
\* still open settles later, any other at once
FinallyCancel(i) ==
  /\ sends[i].pc = "finally"
  /\ bodies' = CancelBodies(bodies, readerRef)
  /\ reqs' = CancelReqs(reqs, bodies, readerRef)
  /\ sends' = [sends EXCEPT ![i].pc =
                 IF readerRef # 0 /\ bodies[readerRef].state = "open"
                 THEN "finallyWait" ELSE "finally2"]
  /\ UNCHANGED <<pmessages, input, pending, abortRef, readerRef, nSends,
                 unhandled, NotPage>>

\* variant: the reader stays in readerRef
FinallyClearKeepReader(i) ==
  /\ \/ sends[i].pc = "finally2"
     \/ sends[i].pc = "finallyWait" /\ Quiet
  /\ pending' = FALSE
  /\ abortRef' = 0
  /\ sends' = [sends EXCEPT ![i].pc = "done"]
  /\ UNCHANGED <<pmessages, input, readerRef, nSends, reqs, bodies, unhandled,
                 NotPage>>

\* finally, after the await: the references and the pending flag are cleared
FinallyClear(i) ==
  /\ \/ sends[i].pc = "finally2"
     \/ sends[i].pc = "finallyWait" /\ Quiet
  /\ readerRef' = 0
  /\ pending' = FALSE
  /\ abortRef' = 0
  /\ sends' = [sends EXCEPT ![i].pc = "done"]
  /\ UNCHANGED <<pmessages, input, nSends, reqs, bodies, unhandled, NotPage>>

\* the body of stop()
Stopped ==
  /\ bodies' = AbortBodies(CancelBodies(bodies, readerRef), abortRef)
  /\ reqs' = AbortReqs(CancelReqs(reqs, bodies, readerRef), abortRef)
  /\ abortRef' = 0
  /\ pending' = FALSE

\* the Stop button, shown while pending
Stop ==
  /\ Quiet
  /\ pending
  /\ Stopped
  /\ UNCHANGED <<pmessages, input, readerRef, nSends, sends, unhandled,
                 NotPage>>

\* the Reset button, shown while not pending
Reset ==
  /\ Quiet
  /\ ~pending
  /\ Stopped
  /\ pmessages' = <<>>
  /\ input' = <<>>
  /\ UNCHANGED <<readerRef, nSends, sends, unhandled, NotPage>>

\* the page as rendered first: nothing sent, a text in the input field
PageInit ==
  /\ hasKey = TRUE
  /\ reqBody \in StreamRequests
  /\ baseUrl = Undefined
  /\ hasToWeb = TRUE
  /\ HandlerFresh
  /\ pmessages = <<>>
  /\ input = <<"a">>
  /\ pending = FALSE
  /\ abortRef = 0
  /\ readerRef = 0
  /\ nSends = 0
  /\ sends = <<>>
  /\ reqs = <<>>
  /\ bodies = <<>>
  /\ unhandled = {}

PageNext ==
  \/ TypeInput
  \/ Send
  \/ Stop
  \/ Reset
  \/ \E i \in 1..nSends : FetchResolves(i)
  \/ \E i \in 1..nSends : FetchRejects(i)
  \/ \E i \in 1..nSends : TextResolves(i)
  \/ \E i \in 1..nSends : TextRejects(i)
  \/ \E i \in 1..nSends : ReadChunk(i)
  \/ \E i \in 1..nSends : ReadDone(i)
  \/ \E i \in 1..nSends : ReadFails(i)
  \/ \E i \in 1..nSends : FinallyCancel(i)
  \/ \E i \in 1..nSends : FinallyClear(i)

PageSpec == PageInit /\ [][PageNext]_vars

\* a send in its read loop, the stream still unread, for every event stream
ReadInit ==
  /\ hasKey = TRUE
  /\ reqBody \in StreamRequests
  /\ baseUrl = Undefined
  /\ hasToWeb = TRUE
  /\ HandlerFresh
  /\ pmessages = <<[role |-> "user", content |-> <<"a">>], Placeholder>>
  /\ input = <<>>
  /\ pending = TRUE
  /\ abortRef = 1
  /\ readerRef = 1
  /\ nSends = 1
  /\ sends = <<[pc |-> "read", buffer |-> <<>>, exit |-> "none"]>>
  /\ reqs = <<NewReq(<<[role |-> "user", content |-> <<"a">>]>>)>>
  /\ \E w \in ReadWires :
       bodies = <<[state |-> "open", wire0 |-> w, pos |-> 0]>>
  /\ unhandled = {}

ReadNext ==
  \/ \E i \in 1..nSends : ReadChunk(i)
  \/ \E i \in 1..nSends : ReadDone(i)
  \/ \E i \in 1..nSends : FinallyCancel(i)
  \/ \E i \in 1..nSends : FinallyClear(i)

ReadSpec == ReadInit /\ [][ReadNext]_vars


\* ------------------------------------------------------------------------
\* Properties of the read loop
\* ------------------------------------------------------------------------

\* the content of the trailing message of the conversation
LastContent ==
  IF pmessages = <<>> THEN <<>> ELSE pmessages[Len(pmessages)].content

\* the lines of a text, each without its newline; what follows the last
\* newline is not a line
RECURSIVE SplitLines(_)
SplitLines(text) ==
  LET idx == IndexOfNL(text)
  IN  IF idx = 0 THEN <<>>
      ELSE <<SubSeq(text, 1, idx - 1)>>
             \o SplitLines(SubSeq(text, idx + 1, Len(text)))

DataLines == {DataLine(lit) : lit \in Literals}

\* data lines followed by the terminal sentinel
IsFiniteEventStream(lines) ==
  /\ Len(lines) >= 1
  /\ lines[Len(lines)] = DoneLine
  /\ \A k \in 1..(Len(lines) - 1) : lines[k] \in DataLines

\* the fragments of data lines, concatenated in stream order
Fragments(lines) ==
  Flatten([k \in 1..Len(lines) |-> LiteralText(lines[k][4])])

\* C13: for a finite event stream of newline-terminated data lines followed
\* by the terminal sentinel, when the read loop has ended with the stream the
\* content of the trailing assistant message is the concatenation, in stream
\* order, of the fragments of the data lines, each once.
C13_ContentIsConcatenation ==
  LET lines == SplitLines(bodies[1].wire0)
  IN  (/\ sends[1].exit = "end"
       /\ Wire(lines) = bodies[1].wire0
       /\ IsFiniteEventStream(lines))
        => /\ pmessages[Len(pmessages)].role = "assistant"
           /\ LastContent = Fragments(SubSeq(lines, 1, Len(lines) - 1))

\* "Bonjour" then " !" then [DONE] has been read to its end
C13_Witness ==
  /\ sends[1].exit = "end"
  /\ bodies[1].wire0 =
       Wire(<<DataLine("\"Bonjour\""), DataLine("\" !\""), DoneLine>>)
  /\ LastContent = <<"Bonjour", " !">>

\* the deltas of the complete lines of a text, in order
RECURSIVE DeltasOf(_)
DeltasOf(text) ==
  LET idx == IndexOfNL(text)
  IN  IF idx = 0 THEN <<>>
      ELSE LineDelta(Trim(SubSeq(text, 1, idx - 1)))
             \o DeltasOf(SubSeq(text, idx + 1, Len(text)))

\* what has been read of the stream so far
Delivered == SubSeq(bodies[1].wire0, 1, bodies[1].pos)

\* C14: however the stream is cut into reads, what has been appended to the
\* trailing assistant message is what the complete lines read so far yield,
\* in order and each once: a line cut by a read yields nothing until the read
\* that brings its newline, and the buffer holds the cut line meanwhile.
C14_IndependentOfCuts ==
  /\ LastContent = DeltasOf(Delivered)
  /\ sends[1].pc = "read" =>
       /\ IndexOfNL(sends[1].buffer) = 0
       /\ Wire(SplitLines(Delivered)) \o sends[1].buffer = Delivered

\* a read has ended inside the JSON of the second line, whose fragment is
\* not appended yet
C14_Witness ==
  /\ sends[1].pc = "read"
  /\ bodies[1].wire0 = Wire(<<DataLine("\"Bonjour\""), DataLine("\" !\"")>>)
  /\ sends[1].buffer = <<MARKER, " ", JSON_OPEN>>
  /\ LastContent = <<"Bonjour">>

\* lines the loop skips: no marker, empty payload, the sentinel, invalid
\* JSON, JSON without the fragment path
Ignorable ==
  { <<>>,
    <<"event:", " ", "message">>,
    <<MARKER, " ">>,
    DoneLine,
    <<MARKER, " ", JSON_OPEN, "\"Bonjour\"">>,
    <<MARKER, " ", "{}">> }

\* the fragment of a line of Lines that is not skipped
Fragment(line) ==
  IF line \in DataLines THEN LiteralText(line[4])
  ELSE IF line \in Ignorable THEN <<>>
  ELSE <<" !">>

\* C20: skipped lines change nothing and do not end the loop: when the loop
\* has ended, the whole stream has been read, no error was raised or shown,
\* and the content is made of the fragments of the other lines, those behind
\* a skipped line (the sentinel included) among them.
C20_SkippedLines ==
  LET lines == SplitLines(bodies[1].wire0)
  IN  sends[1].pc # "read" =>
        /\ sends[1].exit = "end"
        /\ bodies[1].pos = Len(bodies[1].wire0)
        /\ unhandled = {}
        /\ LastContent = Flatten([k \in 1..Len(lines) |-> Fragment(lines[k])])

\* a fragment behind the sentinel and behind a line without the path
C20_Witness ==
  /\ sends[1].exit = "end"
  /\ bodies[1].wire0 =
       Wire(<<DoneLine, <<MARKER, " ", "{}">>, DataLine("\"Bonjour\"")>>)
  /\ LastContent = <<"Bonjour">>


\* ------------------------------------------------------------------------
\* Properties of send, stop and reset
\* ------------------------------------------------------------------------

\* no error text in the content of the trailing message
NoErrorText == \A k \in 1..Len(LastContent) : LastContent[k] # WARNING

\* the calls of send whose read ended because its reader was cancelled
Cancelled == {i \in 1..nSends : sends[i].exit = "cancel"}

\* C15: after a stop during the wait of the read loop on a stream that is
\* still open, the send raises no unhandled error, its stream is cancelled,
\* no error text is shown, and once its continuation has run the pending
\* flag is false and no reader is held.
C15_StopDuringRead ==
  \A i \in Cancelled :
    /\ i \notin unhandled
    /\ bodies[i].state = "closed"
    /\ i = nSends => NoErrorText
    /\ (i = nSends /\ Quiet) =>
         /\ sends[i].pc = "done"
         /\ ~pending
         /\ readerRef = 0

\* the first chunk was shown, the stream stayed open, stop was clicked
C15_Witness ==
  /\ 1 \in Cancelled
  /\ nSends = 1
  /\ sends[1].pc = "done"
  /\ LastContent = <<"Bonjour">>
  /\ ~pending
  /\ readerRef = 0

\* a call of send that is over, by return or by throw
Over(i) == sends[i].pc \in {"done", "threw"}

\* C16: a send that is over, and that no later send followed, has cleared
\* the pending flag and holds no reader, whatever its exit path.
C16_PendingCleared ==
  (nSends > 0 /\ Over(nSends)) => (~pending /\ readerRef = 0)

\* C17: a stop before the response is a cancellation: the send whose request
\* was aborted while still awaited raises no unhandled error.
C17_StopBeforeResponse ==
  \A i \in 1..nSends : sends[i].exit = "fetchAbort" => i \notin unhandled

\* s is the beginning of t
IsPrefix(s, t) == Len(s) <= Len(t) /\ SubSeq(t, 1, Len(s)) = s

\* the step is a click on Stop
StopStep == pending /\ ~pending' /\ sends' = sends

\* the step is the catch block of call i
CatchStep(i) == sends[i].pc = "read" /\ sends'[i].exit \in {"abort", "error"}

\* the step is one of the finally block of call i, or its break
AfterLoopStep(i) ==
  /\ sends'[i] # sends[i]
  /\ \/ sends[i].pc \in {"finally", "finallyWait", "finally2"}
     \/ sends[i].pc = "read" /\ sends'[i].pc = "finally"
                             /\ sends'[i].exit \in {"cancel", "end"}

\* C18: stop leaves the conversation as it is, so does everything a send
\* does after its loop, and the catch block of a failed read changes the
\* trailing message only, by appending to its content.
C18_PartialOutputKept ==
  [][ /\ StopStep => pmessages' = pmessages
      /\ \A i \in 1..nSends :
           /\ AfterLoopStep(i) => pmessages' = pmessages
           /\ CatchStep(i) =>
                /\ Len(pmessages') = Len(pmessages)
                /\ \A k \in 1..(Len(pmessages) - 1) :
                     pmessages'[k] = pmessages[k]
                /\ IsPrefix(LastContent, LastContent') ]_vars

\* a first send was stopped and a second failed, each after its fragment
C18_Witness ==
  /\ nSends = 2
  /\ sends[1].exit = "cancel"
  /\ sends[2].exit = "error"
  /\ Len(pmessages) = 4
  /\ pmessages[2].content = <<"Bonjour">>
  /\ LastContent = <<"Bonjour", "\n\n", WARNING, "network error">>

Live == {i \in 1..Len(reqs) : reqs[i].live}

\* C19: at most one request is live at any moment; a send issues a request
\* only when none is pending and the input is not blank, and no earlier
\* request is live once it has.
C19_OneLiveRequest ==
  [][ /\ Cardinality(Live') <= 1
      /\ nSends' # nSends =>
           /\ ~pending
           /\ Trim(input) # <<>>
           /\ Live' = {nSends'} ]_vars

\* a second request is live after the first was stopped
C19_Witness ==
  /\ nSends = 2
  /\ Live = {2}
  /\ reqs[1].aborted


\* ------------------------------------------------------------------------
\* The updater of a fragment, on every conversation
\* ------------------------------------------------------------------------

\* most messages of a conversation the updater is applied to
MaxConv == 2

\* most fragments in the content of a message
MaxContent == 2

\* type Msg = { role: "user" | "assistant" | "system"; content: string }
Roles == {"user", "assistant", "system"}

PageMsgs == [role : Roles, content : {<<>>, <<"Bonjour">>}]

Conversations == SeqsUpTo(PageMsgs, MaxConv)

\* the non-empty deltas a line can carry: if (!delta) continue
Deltas == {LiteralText(lit) : lit \in Literals} \ {<<>>}

\* setMessages(curr => ...) for a delta, on whatever the conversation is
ApplyFragment ==
  /\ Len(LastContent) < MaxContent
  /\ \E delta \in Deltas : pmessages' = ApplyDelta(pmessages, delta)
  /\ UNCHANGED <<input, pending, abortRef, readerRef, nSends, sends, reqs,
                 bodies, unhandled, NotPage>>

DeltaInit ==
  /\ hasKey = TRUE
  /\ reqBody \in StreamRequests
  /\ baseUrl = Undefined
  /\ hasToWeb = TRUE
  /\ HandlerFresh
  /\ pmessages \in Conversations
  /\ input \in Inputs
  /\ pending = FALSE
  /\ abortRef = 0
  /\ readerRef = 0
  /\ nSends = 0
  /\ sends = <<>>
  /\ reqs = <<>>
  /\ bodies = <<>>
  /\ unhandled = {}

DeltaNext ==
  \/ ApplyFragment
  \/ Reset

DeltaSpec == DeltaInit /\ [][DeltaNext]_vars

\* C21: applying a fragment keeps the number of messages and every message
\* but the last; a last message of role assistant gains the fragment as a
\* suffix of its content; with any other last message, or with none, the
\* conversation stays as it is.
C21_OnlyLastAssistantChanges ==
  \A delta \in Deltas :
    LET r == ApplyDelta(pmessages, delta)
        n == Len(pmessages)
    IN  /\ Len(r) = n
        /\ \A k \in 1..(n - 1) : r[k] = pmessages[k]
        /\ IF n > 0 /\ pmessages[n].role = "assistant"
           THEN r[n] = [role |-> "assistant",
                        content |-> pmessages[n].content \o delta]
           ELSE r = pmessages

\* a fragment has been put behind another in the assistant's message, the
\* user's message before it being what it was
C21_Witness ==
  /\ Len(pmessages) = 2
  /\ pmessages[1] = [role |-> "user", content |-> <<"Bonjour">>]
  /\ pmessages[2] = [role |-> "assistant", content |-> <<"Bonjour", " !">>]


\* ------------------------------------------------------------------------
\* The standalone parser (lib/sse.ts)
\* ------------------------------------------------------------------------

\* buffer.split('\n'): the pieces between newlines, the one behind the last
\* newline included
RECURSIVE Split(_)
Split(buffer) ==
  LET idx == IndexOfNL(buffer)
  IN  IF idx = 0 THEN <<buffer>>
      ELSE <<SubSeq(buffer, 1, idx - 1)>>
             \o Split(SubSeq(buffer, idx + 1, Len(buffer)))

\* the body of the for loop for one line, which is not trimmed: the delta
\* pushed, or the empty text when nothing is pushed
SseLineDelta(line) ==
  IF line = <<>> \/ Head(line) # MARKER THEN <<>>
  ELSE LET data == Trim(Tail(line))
       IN  IF data = <<>> \/ data = <<DONE>> THEN <<>>
           ELSE LET j == JsonContent(data)
                IN  IF ~j.ok THEN <<>>
                    ELSE IF j.content.def THEN j.content.val
                    ELSE <<>>

\* extractDeltaContentFromSSE(buffer): the deltas pushed, in order
ExtractDeltaContentFromSSE(buffer) ==
  LET lines == Split(buffer)
  IN  Flatten([k \in 1..Len(lines) |-> SseLineDelta(lines[k])])

\* C22: for a text of newline-terminated lines, the fragments returned by
\* extractDeltaContentFromSSE are, in order, the fragments the read loop has
\* appended when it has read the same text to its end.
C22_SameFragments ==
  sends[1].exit = "end" =>
    ExtractDeltaContentFromSSE(bodies[1].wire0) = LastContent


\* ------------------------------------------------------------------------
\* Properties of the Forwarder's backoff and of its termination
\* ------------------------------------------------------------------------

\* the step hands a request to axios.post
SubmitStep == Len(tried') = Len(tried) + 1

\* C23: an attempt is preceded by a delay exactly when it is the second on
\* its model (the even attempts of the request); that delay is between 200
\* and 399 ms, and a model's first attempt, a fallback's included, has none.
C23_BackoffBeforeSecondAttempt ==
  [][ SubmitStep =>
        IF Len(tried') % 2 = 0
        THEN /\ tried'[Len(tried')] = tried[Len(tried)]
             /\ delay \in 200..399
        ELSE delay = 0 ]_vars

\* the second attempt on the first fallback is due after the longest delay
C23_Witness ==
  /\ Len(tried) = 3
  /\ pc = "post"
  /\ delay = 399
  /\ nCap = 3


\* ------------------------------------------------------------------------
\* Properties of the cleanup of a send
\* ------------------------------------------------------------------------

\* call j is in its read loop and its stream is open
StillStreaming(j) == sends[j].pc = "read" /\ bodies[j].state = "open"


C25_AlwaysResponds ==
  (~ENABLED Next) => (response.sent /\ Len(tried) <= 6)

====
